---- MODULE Spec2Model ----
(***************************************************************************)
(* Model of the MFC voice-agent webhook adapter (src/main.py).             *)
(*                                                                         *)
(* State: the content of the hosted memory store (identities, threads and  *)
(* their messages) plus the last request handled, the store calls that     *)
(* request issued (in order, with their outcomes) and its response.        *)
(* reported is a history variable: the callers for whom an end-of-call     *)
(* report has been appended to the store.                                  *)
(* One action per HTTP operation: POST / (handle_vapi_webhook),            *)
(* POST /get-caller-context and POST /save-conversation.  The store client *)
(* is synchronous, so within one server process a handler runs to          *)
(* completion once its body is read: Spec takes each handler as one step.  *)
(* Handlers of different server processes interleave at their store calls: *)
(* RaceSpec runs two requests of one never-seen caller call by call, in    *)
(* race, against a store that rejects or de-duplicates a second create.    *)
(*                                                                         *)
(* Strings: a text (context, firstMessage) is a sequence of fragments; the *)
(* empty sequence is the empty (or null) text.                             *)
(***************************************************************************)
EXTENDS Integers, Sequences, FiniteSets, TLC

VARIABLES users, threads, req, calls, resp, reported, race

vars == <<users, threads, req, calls, resp, reported, race>>

----------------------------------------------------------------------------
(* Bounds of the model *)

\* longest message list carried by one request
MaxLen == 2
\* most messages the store holds over all threads (appends beyond are cut off)
MaxStored == 2

----------------------------------------------------------------------------
(* Values *)

\* Python's None / JSON null or a missing key read through .get()
None == "<None>"
\* a key that is missing from a message entry
Absent == "<absent>"

Phones == {"+14065551234", "+14065550000"}

EventTypes == {"assistant-request", "assistant.started", "tool-calls",
               "function-call", "end-of-call-report", "status-update"}

\* str() of a value inside an f-string
PyStr(v) == IF v = None THEN "None" ELSE v

\* truthiness of a str-or-None value
Truthy(v) == v # None /\ v # Absent /\ v # ""

Last(s) == s[Len(s)]

\* the string s written five times
Times5(s) == s \o s \o s \o s \o s

RECURSIVE SeqsUpTo(_, _)
SeqsUpTo(S, n) ==
    IF n = 0 THEN {<<>>}
    ELSE LET shorter == SeqsUpTo(S, n - 1)
         IN  shorter \cup {Append(s, e) : s \in {t \in shorter : Len(t) = n - 1}, e \in S}

----------------------------------------------------------------------------
(* Transcript entries as the voice platform sends them *)

Entry(role, content, text, message) ==
    [obj |-> TRUE, role |-> role, content |-> content, text |-> text, message |-> message]

UserHello == Entry("user", Absent, Absent, "hello")
BotHi     == Entry("bot", Absent, Absent, "hi there")
Both      == Entry(Absent, "hi there", "t", Absent)
NoText    == Entry("user", "", Absent, Absent)
\* a long turn: 4 * 5^4 + 10 = 2510 characters of text
LongText  == Times5(Times5(Times5(Times5("0123")))) \o "0123456789"
LongEntry == Entry("user", LongText, Absent, Absent)
\* an entry that is not a JSON object (a string, a number, null)
BadEntry  == [obj |-> FALSE, role |-> Absent, content |-> Absent, text |-> Absent,
              message |-> Absent]

Entries == {UserHello, BotHi, Both, NoText, LongEntry, BadEntry}

\* a "messages" key of the envelope: missing (or null), or a list
NoList == [present |-> FALSE, items |-> <<>>]
List(items) == [present |-> TRUE, items |-> items]

----------------------------------------------------------------------------
(* The memory store as the adapter sees it through the zep client.          *)
(* A store state st is [users, threads, log]: the identities, the threads   *)
(* (id -> owner and messages) and the calls issued so far by the request.   *)
(* Every call either returns or raises; env chooses, per request, which     *)
(* operations suffer a service error (env.faults) and the shape of a        *)
(* context response (env.shape).  A lookup of a missing key and a create    *)
(* of an existing key raise as well.                                        *)

StoreOps == {"user.get", "user.add", "thread.get", "thread.add",
             "thread.add_messages", "thread.get_user_context"}

CtxShapes == {"full", "bare", "facts_none"}

\* the calls save_conversation issues, and those get_caller_context issues
SaveOps == {"user.get", "user.add", "thread.get", "thread.add", "thread.add_messages"}
ContextOps == {"user.get", "user.add", "thread.add", "thread.get_user_context"}

NoFaults == [faults |-> {}, shape |-> "full"]
\* at most one service error per request, on top of the misses and duplicates
AtMostOne(ops) == {{}} \cup {{op} : op \in ops}
SaveEnvs == [faults : AtMostOne(SaveOps), shape : {"full"}]
ContextEnvs == [faults : AtMostOne(ContextOps), shape : CtxShapes]

NoThreads == [t \in {} |-> [owner |-> None, messages |-> <<>>]]

Logged(st, op, key, owner, msgs, out) ==
    [st EXCEPT !.log = Append(@, [op |-> op, key |-> key, owner |-> owner,
                                  msgs |-> msgs, out |-> out])]

\* whether the call just issued returned (did not raise)
Ok(st) == Last(st.log).out = "ok"

UserGet(st, env, uid) ==
    LET out == IF "user.get" \in env.faults THEN "fault"
               ELSE IF uid \in st.users THEN "ok" ELSE "not_found"
    IN  Logged(st, "user.get", uid, None, <<>>, out)

UserAdd(st, env, uid) ==
    LET out == IF "user.add" \in env.faults THEN "fault"
               ELSE IF uid \in st.users THEN "duplicate" ELSE "ok"
        st1 == IF out = "ok" THEN [st EXCEPT !.users = @ \cup {uid}] ELSE st
    IN  Logged(st1, "user.add", uid, None, <<>>, out)

ThreadGet(st, env, tid) ==
    LET out == IF "thread.get" \in env.faults THEN "fault"
               ELSE IF tid \in DOMAIN st.threads THEN "ok" ELSE "not_found"
    IN  Logged(st, "thread.get", tid, None, <<>>, out)

ThreadAdd(st, env, tid, uid) ==
    LET exists == tid \in DOMAIN st.threads
        out == IF "thread.add" \in env.faults THEN "fault"
               ELSE IF exists THEN "duplicate" ELSE "ok"
        st1 == IF out = "ok"
               THEN [st EXCEPT !.threads =
                        (tid :> [owner |-> uid, messages |-> <<>>]) @@ @]
               ELSE st
    IN  Logged(st1, "thread.add", tid, uid, <<>>, out)

AddMessages(st, env, tid, msgs) ==
    LET out == IF "thread.add_messages" \in env.faults THEN "fault"
               ELSE IF tid \in DOMAIN st.threads THEN "ok" ELSE "not_found"
        st1 == IF out = "ok"
               THEN [st EXCEPT !.threads[tid].messages = @ \o msgs]
               ELSE st
    IN  Logged(st1, "thread.add_messages", tid, None, msgs, out)

GetUserContext(st, env, tid, uid) ==
    LET out == IF "thread.get_user_context" \in env.faults THEN "fault"
               ELSE IF tid \in DOMAIN st.threads THEN "ok" ELSE "not_found"
    IN  Logged(st, "thread.get_user_context", tid, uid, <<>>, out)

\* what a context response carries: fragments derived from the thread's messages
ThreadFragments(st, tid) ==
    LET m == st.threads[tid].messages
    IN  [i \in 1..Len(m) |-> m[i].content]

----------------------------------------------------------------------------
(* Responses.  One record shape for every endpoint; a field an endpoint     *)
(* does not return keeps the value of NoResp.                               *)

NoResp == [kind |-> "none", http |-> 200, status |-> "", success |-> FALSE,
           is_new_caller |-> FALSE, session_id |-> "", context |-> <<>>,
           facts |-> <<>>, messages_saved |-> 0, message |-> ""]

OnboardingContext ==
    <<"This is a new caller. Be welcoming and friendly. Ask about their operation - herd size, location, and what they need help with today.">>
UnavailableContext ==
    <<"Returning caller - welcome them back but no previous conversation details available.">>
NoAttrContext ==
    <<"Returning caller, but no previous conversation details available.">>

\* {"status": s}
StatusResp(s) == [NoResp EXCEPT !.kind = "status", !.status = s]

\* facts[:5]
Take5(facts) == SubSeq(facts, 1, IF Len(facts) < 5 THEN Len(facts) ELSE 5)

----------------------------------------------------------------------------
(* Session keys *)

\* the thread context retrieval reads: f"mfc_{user_id}_current"
ContextThreadId(uid) == "mfc_" \o PyStr(uid) \o "_current"

\* the thread the end-of-call path writes: f"mfc_{phone_number}_{call_id}"
CallThreadId(phone, call_id) == "mfc_" \o PyStr(phone) \o "_" \o PyStr(call_id)

----------------------------------------------------------------------------
(* get_caller_context.  A run is [st, raised, resp].                        *)

\* the returning-caller result built from a context response
ContextHitResp(st, env, tid) ==
    LET context == IF env.shape = "bare" THEN NoAttrContext ELSE ThreadFragments(st, tid)
        facts   == IF env.shape = "bare" THEN <<>> ELSE ThreadFragments(st, tid)
    IN  [NoResp EXCEPT !.kind = "context", !.success = TRUE, !.is_new_caller = FALSE,
                       !.session_id = tid, !.context = context, !.facts = Take5(facts),
                       !.message = "Returning caller - memory loaded"]

ContextUnavailableResp(tid) ==
    [NoResp EXCEPT !.kind = "context", !.success = TRUE, !.is_new_caller = FALSE,
                   !.session_id = tid, !.context = UnavailableContext,
                   !.message = "User exists but memory unavailable"]

NewCallerResp(tid) ==
    [NoResp EXCEPT !.kind = "context", !.success = TRUE, !.is_new_caller = TRUE,
                   !.session_id = tid, !.context = OnboardingContext,
                   !.message = "New caller - no previous history"]

\* lines 190-221: the identity was found
ReturningCaller(st, env, uid, tid) ==
    LET s1 == GetUserContext(st, env, tid, uid)
    IN  IF Ok(s1) /\ env.shape # "facts_none"
        THEN [st |-> s1, raised |-> FALSE, resp |-> ContextHitResp(s1, env, tid)]
        ELSE [st |-> s1, raised |-> FALSE, resp |-> ContextUnavailableResp(tid)]

\* FirstTouch with the creation left out
FirstTouchOmitted(st, env, uid, tid) == st

\* lines 227-243: first-touch creation of the identity and its thread
FirstTouch(st, env, uid, tid) ==
    LET s1 == UserAdd(st, env, uid)
    IN  IF Ok(s1) THEN ThreadAdd(s1, env, tid, uid) ELSE s1

\* lines 223-251: the lookup raised
NewCaller(st, env, uid, tid) ==
    [st |-> FirstTouch(st, env, uid, tid), raised |-> FALSE, resp |-> NewCallerResp(tid)]

GetCallerContextRun(st, env, uid) ==
    LET tid == ContextThreadId(uid)
        s1  == UserGet(st, env, uid)
    IN  IF Ok(s1) THEN ReturningCaller(s1, env, uid, tid)
        ELSE NewCaller(s1, env, uid, tid)

----------------------------------------------------------------------------
(* save_conversation.  A run is [st, raised, resp].                         *)

\* EnsureUser creating the identity whatever the lookup returned
EnsureUserAlwaysCreates(st, env, uid) == UserAdd(UserGet(st, env, uid), env, uid)

\* lines 272-282: get the identity, create it when the lookup raises
EnsureUser(st, env, uid) ==
    LET s1 == UserGet(st, env, uid)
    IN  IF Ok(s1) THEN s1 ELSE UserAdd(s1, env, uid)

\* lines 285-294: get the thread, create it when the lookup raises
EnsureThread(st, env, tid, uid) ==
    LET s1 == ThreadGet(st, env, tid)
    IN  IF Ok(s1) THEN s1 ELSE ThreadAdd(s1, env, tid, uid)

\* ZepRole passing the source role through unclassified
ZepRoleUnclassified(e) == IF e.role = Absent THEN "user" ELSE e.role

\* line 299 and 304: msg.get("role", "user"), then the binary classification
ZepRole(e) ==
    LET role == IF e.role = Absent THEN "user" ELSE e.role
    IN  IF role = "user" THEN "user" ELSE "assistant"

\* lines 303-307
ZepMessage(e) ==
    [role |-> ZepRole(e), content |-> e.content,
     name |-> IF ZepRole(e) = "user" THEN "Caller" ELSE "Montana Feed Agent"]

\* the loop of lines 298-307 raises on an entry without .get or without "content"
Convertible(transcript) ==
    \A i \in 1..Len(transcript) : transcript[i].obj /\ transcript[i].content # Absent

ZepMessages(transcript) == [i \in 1..Len(transcript) |-> ZepMessage(transcript[i])]

\* lines 317-323
SavedResp(uid, tid, messages) ==
    [NoResp EXCEPT !.kind = "saved", !.success = TRUE, !.session_id = tid,
                   !.messages_saved = Len(messages),
                   !.message = "Conversation saved to memory"]

\* lines 325-329: raise HTTPException(status_code=500)
SaveFailed(st) ==
    [st |-> st, raised |-> TRUE,
     resp |-> [NoResp EXCEPT !.kind = "http_error", !.http = 500,
                             !.message = "Failed to save conversation"]]

\* AppendAndReport swallowing a failure of the append
AppendAndReportSwallowing(st, env, uid, tid, messages) ==
    [st |-> AddMessages(st, env, tid, messages), raised |-> FALSE,
     resp |-> SavedResp(uid, tid, messages)]

\* lines 309-323: the append and what follows it
AppendAndReport(st, env, uid, tid, messages) ==
    LET s1 == AddMessages(st, env, tid, messages)
    IN  IF Ok(s1)
        THEN [st |-> s1, raised |-> FALSE, resp |-> SavedResp(uid, tid, messages)]
        ELSE SaveFailed(s1)

\* SaveConversationRun going on to the thread after a failed identity create
SaveConversationRunUnguarded(st, env, uid, tid, transcript) ==
    LET s1 == EnsureUser(st, env, uid)
        s2 == EnsureThread(s1, env, tid, uid)
    IN  IF ~Ok(s2) THEN SaveFailed(s2)
        ELSE IF ~Convertible(transcript) THEN SaveFailed(s2)
        ELSE AppendAndReport(s2, env, uid, tid, ZepMessages(transcript))

\* lines 270-329: a call that raises ends the run in the outer except
SaveConversationRun(st, env, uid, tid, transcript) ==
    LET s1 == EnsureUser(st, env, uid)
        s2 == EnsureThread(s1, env, tid, uid)
    IN  IF ~Ok(s1) THEN SaveFailed(s1)
        ELSE IF ~Ok(s2) THEN SaveFailed(s2)
        ELSE IF ~Convertible(transcript) THEN SaveFailed(s2)
        ELSE AppendAndReport(s2, env, uid, tid, ZepMessages(transcript))

----------------------------------------------------------------------------
(* handle_vapi_webhook.  An envelope is                                     *)
(*   [shape, type, phone, call_id, top, call_msgs, call]:                   *)
(* message.type, message.call.customer.number, message.call.id,            *)
(* message.messages and message.call.messages.  shape tells which of the   *)
(* objects on the way to them is no JSON object; call is the call the      *)
(* event belongs to, which the handler cannot read.  A run is [st, resp].  *)

\* line 123: msg.get("content", "") or msg.get("text", "") or msg.get("message", "")
ResolveText(e) ==
    IF Truthy(e.content) THEN e.content
    ELSE IF Truthy(e.text) THEN e.text
    ELSE IF Truthy(e.message) THEN e.message
    ELSE ""

\* line 122: msg.get("role", "assistant")
SourceRole(e) == IF e.role = Absent THEN "assistant" ELSE e.role

\* lines 125-128
FormatEntry(e) == Entry(SourceRole(e), ResolveText(e), Absent, Absent)

RECURSIVE FormatTranscript(_)
\* lines 120-128: keep, in order, the entries that have text
FormatTranscript(transcript) ==
    IF transcript = <<>> THEN <<>>
    ELSE LET e == Head(transcript)
             rest == FormatTranscript(Tail(transcript))
         IN  IF Truthy(ResolveText(e)) THEN <<FormatEntry(e)>> \o rest ELSE rest

\* msg.get raises on an entry that is no object
AllObjects(transcript) == \A i \in 1..Len(transcript) : transcript[i].obj

\* lines 91-98: the debug print reads transcript[0].keys() outside the inner try
TopLevelPrintRaises(env_) ==
    env_.top.present /\ env_.top.items # <<>> /\ ~Head(env_.top.items).obj

\* lines 91-115: the payload-level list, else the call-level list
ChooseTranscript(env_) ==
    IF env_.top.present /\ env_.top.items # <<>> THEN env_.top.items
    ELSE env_.call_msgs.items

\* line 117: if phone_number and transcript
Actionable(env_) == Truthy(env_.phone) /\ ChooseTranscript(env_) # <<>>

\* lines 117-154: the guarded save; whatever it raises is caught and logged
EndOfCallSave(st, env, env_) ==
    LET transcript == ChooseTranscript(env_)
        formatted  == FormatTranscript(transcript)
    IN  IF ~Actionable(env_) THEN st
        ELSE IF ~AllObjects(transcript) THEN st
        ELSE IF formatted = <<>> THEN st
        ELSE SaveConversationRun(st, env, env_.phone,
                                 CallThreadId(env_.phone, env_.call_id), formatted).st

\* line 54-55: request.json() and payload.get("message", {}).get("type") raise
\* on a body that is no JSON object and on a message that is none
EnvelopeReadable(env_) == env_.shape \notin {"not_object", "message_null"}

\* lines 61 and 101-102: .get("call", {}).get("customer", {}).get("number") raises
\* on a call or a customer that is null or no object
CallDataReadable(env_) == env_.shape \notin {"call_null", "customer_null"}

\* OuterExcept letting the fault escape the handler
OuterExceptReraises(st) ==
    [st |-> st, resp |-> [NoResp EXCEPT !.kind = "http_error", !.http = 500]]

\* lines 163-167: the handler's outermost except returns {"status": "error", ...}
OuterExcept(st) == [st |-> st, resp |-> StatusResp("error")]

\* lines 83-156
EndOfCallReport(st, env, env_) ==
    IF TopLevelPrintRaises(env_) \/ ~CallDataReadable(env_)
    THEN OuterExcept(st)
    ELSE [st |-> EndOfCallSave(st, env, env_), resp |-> StatusResp("success")]

\* lines 23-25: phone_number is a required str; None fails validation
CallerContextRequestValid(phone) == phone # None

\* lines 60-80
AssistantRequest(st, env, env_) ==
    IF ~CallDataReadable(env_) THEN OuterExcept(st)
    ELSE IF ~CallerContextRequestValid(env_.phone)
    THEN [st |-> st, resp |-> [NoResp EXCEPT !.kind = "assistant_empty"]]
    ELSE LET run == GetCallerContextRun(st, env, env_.phone)
         IN  [st |-> run.st,
              resp |-> [NoResp EXCEPT !.kind = "assistant",
                                      !.context = run.resp.context]]

\* lines 158-161
Acknowledge(st) == [st |-> st, resp |-> StatusResp("acknowledged")]

\* lines 55-161: routing on message.type
Dispatch(st, env, env_) ==
    IF ~EnvelopeReadable(env_) THEN OuterExcept(st)
    ELSE IF env_.type = "assistant-request" THEN AssistantRequest(st, env, env_)
    ELSE IF env_.type = "end-of-call-report" THEN EndOfCallReport(st, env, env_)
    ELSE Acknowledge(st)

----------------------------------------------------------------------------
(* Requests *)

NoReq == [op |-> "none", shape |-> "object", type |-> "", phone |-> None,
          call_id |-> None, call |-> "", top |-> NoList, call_msgs |-> NoList,
          session_id |-> "", transcript |-> <<>>]

\* the lists of well-formed entries, and lists with the odd entries
PlainEntries == {UserHello, BotHi}
OddLists == {<<NoText>>, <<UserHello, NoText>>, <<NoText, Both>>, <<Both>>,
             <<BadEntry>>, <<UserHello, BadEntry>>}
MessageLists == {NoList} \cup {List(t) : t \in SeqsUpTo(PlainEntries, MaxLen) \cup OddLists}

\* a call-level list is read when the payload-level one is missing or empty
CallLevelLists == {List(<<UserHello>>), List(<<BadEntry>>)}
EmptyTops == {NoList, List(<<>>), List(<<NoText>>), List(<<BadEntry>>)}

\* who called, the id of the call as the event carries it, and the call
CallData == {<<"+14065551234", "abc123", "call-1">>, <<"+14065551234", None, "call-2">>,
             <<None, "abc123", "call-4">>}
\* another call of the same caller whose events carry no call id either
SecondCallWithoutId == <<"+14065551234", None, "call-3">>

Envelope(type, d, top, call_msgs) ==
    [shape |-> "object", type |-> type, phone |-> d[1], call_id |-> d[2], call |-> d[3],
     top |-> top, call_msgs |-> call_msgs]

ReportEnvelopes ==
    {Envelope("end-of-call-report", d, t, NoList) : d \in CallData, t \in MessageLists}
    \cup
    {Envelope("end-of-call-report", d, t, m) :
        d \in CallData, t \in EmptyTops, m \in CallLevelLists}
    \cup
    {Envelope("end-of-call-report", <<"+14065551234", "abc123", "call-1">>,
              List(<<LongEntry>>), NoList),
     Envelope("end-of-call-report", SecondCallWithoutId, List(<<UserHello>>), NoList)}

\* envelopes of the other event types carry no message list the handler reads
OtherEnvelopes ==
    {Envelope(ty, d, NoList, NoList) :
        ty \in EventTypes \ {"end-of-call-report"}, d \in CallData}

\* bodies in which an object on the way to the caller's number is null or no object
MalformedEnvelopes ==
    {[Envelope(None, <<None, None, "">>, NoList, NoList) EXCEPT !.shape = s] :
        s \in {"not_object", "message_null"}}
    \cup
    {[Envelope(ty, <<None, None, "">>, NoList, NoList) EXCEPT !.shape = s] :
        ty \in {"assistant-request", "end-of-call-report", "status-update"},
        s \in {"call_null", "customer_null"}}

Envelopes == ReportEnvelopes \cup OtherEnvelopes \cup MalformedEnvelopes

\* the store outcomes that can make a difference to an envelope
EnvsFor(env_) ==
    IF env_.type = "assistant-request" /\ env_.phone # None THEN ContextEnvs
    ELSE IF env_.type = "end-of-call-report" /\ Actionable(env_) THEN SaveEnvs
    ELSE {NoFaults}

\* the callers POST /get-caller-context is asked about
ContextCallers == {"+14065551234"}

\* entries a client of POST /save-conversation sends: {role, content}
DirectEntries == {Entry(Absent, "hello", Absent, Absent),
                  Entry("bot", "hi there", Absent, Absent)}
\* UserHello has no "content" key
DirectTranscripts == SeqsUpTo(DirectEntries, MaxLen) \cup {<<UserHello>>}

SessionIds == {CallThreadId("+14065551234", "abc123"), ContextThreadId("+14065551234")}

TotalStored(th) ==
    LET RECURSIVE Sum(_)
        Sum(S) == IF S = {} THEN 0
                  ELSE LET t == CHOOSE x \in S : TRUE
                       IN  Len(th[t].messages) + Sum(S \ {t})
    IN  Sum(DOMAIN th)

Idle == req.op = "none"

\* whether the run appended the transcript of an end-of-call report
Appended(log) ==
    \E i \in 1..Len(log) : log[i].op = "thread.add_messages" /\ log[i].out = "ok"

\* the state after a request: the store as the run left it, and what the run did
Commit(r, st, response) ==
    /\ TotalStored(st.threads) <= MaxStored
    /\ reported' = IF r.op = "webhook" /\ r.type = "end-of-call-report" /\ Appended(st.log)
                   THEN reported \cup {r.phone} ELSE reported
    /\ users' = st.users
    /\ threads' = st.threads
    /\ calls' = st.log
    /\ req' = r
    /\ resp' = response
    /\ UNCHANGED race

Store == [users |-> users, threads |-> threads, log |-> <<>>]

----------------------------------------------------------------------------
(* Operations *)

\* POST /
HandleVapiWebhook ==
    /\ Idle
    /\ \E env_ \in Envelopes :
        \E env \in EnvsFor(env_) :
            LET run == Dispatch(Store, env, env_)
            IN  Commit([NoReq EXCEPT !.op = "webhook", !.shape = env_.shape,
                                     !.type = env_.type, !.phone = env_.phone,
                                     !.call_id = env_.call_id, !.call = env_.call,
                                     !.top = env_.top, !.call_msgs = env_.call_msgs],
                       run.st, run.resp)

\* POST /get-caller-context
GetCallerContext ==
    /\ Idle
    /\ \E uid \in ContextCallers, env \in ContextEnvs :
        LET run == GetCallerContextRun(Store, env, uid)
        IN  Commit([NoReq EXCEPT !.op = "get-caller-context", !.phone = uid],
                   run.st, run.resp)

\* POST /save-conversation
SaveConversation ==
    /\ Idle
    /\ \E uid \in Phones, tid \in SessionIds,
       transcript \in DirectTranscripts, env \in SaveEnvs :
        LET run == SaveConversationRun(Store, env, uid, tid, transcript)
        IN  Commit([NoReq EXCEPT !.op = "save-conversation", !.phone = uid,
                                 !.session_id = tid, !.transcript = transcript],
                   run.st, run.resp)

\* the response has been sent; the server waits for the next request
Respond ==
    /\ ~Idle
    /\ req' = NoReq
    /\ calls' = <<>>
    /\ resp' = NoResp
    /\ UNCHANGED <<users, threads, reported, race>>

\* no requests in flight in other server processes
NoRace == [policy |-> "reject", procs |-> <<>>]

Init ==
    /\ users = {}
    /\ threads = NoThreads
    /\ req = NoReq
    /\ calls = <<>>
    /\ resp = NoResp
    /\ reported = {}
    /\ race = NoRace

Next == HandleVapiWebhook \/ GetCallerContext \/ SaveConversation \/ Respond

Spec == Init /\ [][Next]_vars

----------------------------------------------------------------------------
(* Concurrent first touches.  Two requests for one caller the store has     *)
(* never seen, each in a server process of its own; a step is one store     *)
(* call of one request.  race is [policy, procs]: what the store does with  *)
(* a create of a key it holds, and per request [op, tid, pc, log]: the      *)
(* operation, its session, the store call it is about to issue (or how it   *)
(* ended) and the calls it has issued.                                      *)

Procs == {1, 2}
RaceCaller == "+14065551234"
RaceTranscript == <<Entry(Absent, "hello", Absent, Absent)>>
Policies == {"reject", "dedup"}

RaceRequests ==
    {[op |-> "save-conversation", tid |-> t, pc |-> "user.get", log |-> <<>>] :
        t \in SessionIds}
    \cup
    {[op |-> "get-caller-context", tid |-> ContextThreadId(RaceCaller),
      pc |-> "user.get", log |-> <<>>]}

\* the creates of a store that answers a create of a key it holds as policy says
UserAddUnder(policy, st, uid) ==
    IF policy = "dedup" /\ uid \in st.users
    THEN Logged(st, "user.add", uid, None, <<>>, "ok")
    ELSE UserAdd(st, NoFaults, uid)

ThreadAddUnder(policy, st, tid, uid) ==
    IF policy = "dedup" /\ tid \in DOMAIN st.threads
    THEN Logged(st, "thread.add", tid, uid, <<>>, "ok")
    ELSE ThreadAdd(st, NoFaults, tid, uid)

\* lines 270-329: where save_conversation goes after a store call
SaveAfter(op, ok) ==
    CASE op = "user.get"            -> IF ok THEN "thread.get" ELSE "user.add"
      [] op = "user.add"            -> IF ok THEN "thread.get" ELSE "raised"
      [] op = "thread.get"          -> IF ok THEN "thread.add_messages" ELSE "thread.add"
      [] op = "thread.add"          -> IF ok THEN "thread.add_messages" ELSE "raised"
      [] op = "thread.add_messages" -> IF ok THEN "returned" ELSE "raised"

\* lines 185-251: where get_caller_context goes after a store call
ContextAfter(op, ok) ==
    CASE op = "user.get"                -> IF ok THEN "thread.get_user_context" ELSE "user.add"
      [] op = "thread.get_user_context" -> "returned"
      [] op = "user.add"                -> IF ok THEN "thread.add" ELSE "returned"
      [] op = "thread.add"              -> "returned"

At(p, op) == race.procs[p].pc = op

RaceStore(p) == [users |-> users, threads |-> threads, log |-> race.procs[p].log]

\* request p has issued the call that led to st
Advance(p, st) ==
    LET pr == race.procs[p]
        pc == IF pr.op = "save-conversation" THEN SaveAfter(pr.pc, Ok(st))
              ELSE ContextAfter(pr.pc, Ok(st))
    IN  /\ users' = st.users
        /\ threads' = st.threads
        /\ race' = [race EXCEPT !.procs[p] = [pr EXCEPT !.pc = pc, !.log = st.log]]
        /\ UNCHANGED <<req, calls, resp, reported>>

RaceUserGet ==
    \E p \in Procs :
        At(p, "user.get") /\ Advance(p, UserGet(RaceStore(p), NoFaults, RaceCaller))

RaceUserAdd ==
    \E p \in Procs :
        At(p, "user.add") /\ Advance(p, UserAddUnder(race.policy, RaceStore(p), RaceCaller))

RaceThreadGet ==
    \E p \in Procs :
        At(p, "thread.get")
            /\ Advance(p, ThreadGet(RaceStore(p), NoFaults, race.procs[p].tid))

RaceThreadAdd ==
    \E p \in Procs :
        At(p, "thread.add")
            /\ Advance(p, ThreadAddUnder(race.policy, RaceStore(p), race.procs[p].tid,
                                         RaceCaller))

RaceAddMessages ==
    \E p \in Procs :
        At(p, "thread.add_messages")
            /\ Advance(p, AddMessages(RaceStore(p), NoFaults, race.procs[p].tid,
                                      ZepMessages(RaceTranscript)))

RaceGetUserContext ==
    \E p \in Procs :
        At(p, "thread.get_user_context")
            /\ Advance(p, GetUserContext(RaceStore(p), NoFaults, race.procs[p].tid,
                                         RaceCaller))

RaceInit ==
    /\ users = {}
    /\ threads = NoThreads
    /\ req = NoReq
    /\ calls = <<>>
    /\ resp = NoResp
    /\ reported = {}
    /\ race \in [policy : Policies, procs : [Procs -> RaceRequests]]

RaceNext ==
    \/ RaceUserGet
    \/ RaceUserAdd
    \/ RaceThreadGet
    \/ RaceThreadAdd
    \/ RaceAddMessages
    \/ RaceGetUserContext

RaceSpec == RaceInit /\ [][RaceNext]_vars

----------------------------------------------------------------------------
(* Vocabulary of the properties *)

IsWebhook(type) == req.op = "webhook" /\ req.type = type
IsReport == IsWebhook("end-of-call-report")
IsDirectContext == req.op = "get-caller-context"
IsDirectSave == req.op = "save-conversation"

CallIdx == 1..Len(calls)
CallsTo(ops) == {i \in CallIdx : calls[i].op \in ops}
WriteOps == {"user.add", "thread.add", "thread.add_messages"}

\* no store call of the request suffered a service error
NoFault(log) == \A i \in 1..Len(log) : log[i].out # "fault"

\* the contents of the messages stored in the threads that caller p owns
StoredContents(p) ==
    UNION {{threads[t].messages[i].content : i \in 1..Len(threads[t].messages)} :
            t \in {x \in DOMAIN threads : threads[x].owner = p}}

Fragments(text) == {text[i] : i \in 1..Len(text)}

\* a context retrieval for a caller, through the webhook or the endpoint
IsContextRetrieval ==
    \/ IsDirectContext
    \/ IsWebhook("assistant-request") /\ req.phone # None

----------------------------------------------------------------------------
(* C1: round trip.  After an end-of-call report for caller P has been saved, *)
(* a context retrieval for P that meets no service error returns a context   *)
(* holding at least one fragment of what the store keeps for P, because the  *)
(* report was written to the session the retrieval reads.                    *)
C1_RoundTrip ==
    (IsContextRetrieval /\ req.phone \in reported /\ NoFault(calls))
        => /\ Fragments(resp.context) \cap StoredContents(req.phone) # {}
           /\ \A i \in CallsTo({"thread.get_user_context"}) :
                 /\ calls[i].out = "ok"
                 /\ threads[calls[i].key].messages # <<>>

----------------------------------------------------------------------------
(* C2: a webhook envelope without a caller phone number, of whatever event   *)
(* type, gets an ignored or empty acknowledgement and issues no store call.  *)
IgnoredResponses ==
    {[NoResp EXCEPT !.kind = "assistant_empty"], StatusResp("success"),
     StatusResp("acknowledged"), StatusResp("ignored")}

C2_MissingPhoneIgnored ==
    (req.op = "webhook" /\ req.phone = None)
        => /\ resp \in IgnoredResponses
           /\ CallsTo(WriteOps) = {}

----------------------------------------------------------------------------
(* C3: the response to an end-of-call report is the success acknowledgement, *)
(* whatever happened inside the handler.                                     *)
C3_ReportAlwaysAcknowledged ==
    IsReport => resp = StatusResp("success")

----------------------------------------------------------------------------
(* C4: a context retrieval raises nothing and returns a success-shaped       *)
(* result whose context is a non-empty string, for every outcome of the      *)
(* store calls it makes.                                                     *)
C4_ContextNeverEmpty ==
    IsContextRetrieval
        => /\ resp.http = 200
           /\ resp.kind \in {"context", "assistant"}
           /\ IsDirectContext => resp.success
           /\ resp.context # <<>>

----------------------------------------------------------------------------
(* C5: an end-of-call report with caller phone P, call id C and a message    *)
(* list reconciles the identity P and the session keyed by (P, C), and       *)
(* appends, in one call, exactly the messages that have text, in their       *)
(* order, with role caller for the source role 'user' and agent otherwise.   *)

\* the text of an entry as the specification resolves it: content, else text, else message
SpecifiedText(e) ==
    LET given == SelectSeq(<<e.content, e.text, e.message>>,
                           LAMBDA v : v \notin {Absent, None, ""})
    IN  IF given = <<>> THEN "" ELSE given[1]

SpecifiedRole(e) == IF e.role = "user" THEN "user" ELSE "assistant"

\* the messages the specification expects in the store, for a list of entries
SpecifiedMessages(items) ==
    LET kept == SelectSeq(items, LAMBDA e : SpecifiedText(e) # "")
    IN  [i \in 1..Len(kept) |-> [role |-> SpecifiedRole(kept[i]), content |-> SpecifiedText(kept[i])]]

\* the list the specification reads: payload level, else call level
SpecifiedList ==
    IF req.top.present /\ req.top.items # <<>> THEN req.top.items ELSE req.call_msgs.items

SpecifiedSessionKey == "mfc_" \o req.phone \o "_" \o (IF req.call_id = None THEN "None" ELSE req.call_id)

RoleAndContent(msgs) == [i \in 1..Len(msgs) |-> [role |-> msgs[i].role, content |-> msgs[i].content]]

\* a report that carries a phone and well-formed entries of which some have text
SavableReport ==
    /\ IsReport
    /\ req.phone \in Phones
    /\ \A i \in 1..Len(SpecifiedList) : SpecifiedList[i].obj
    /\ SpecifiedMessages(SpecifiedList) # <<>>

C5_ReportPersisted ==
    SavableReport =>
        LET appends == CallsTo({"thread.add_messages"})
        IN  /\ calls # <<>>
            /\ calls[1].op = "user.get" /\ calls[1].key = req.phone
            /\ \A i \in CallsTo({"user.get", "user.add"}) : calls[i].key = req.phone
            /\ \A i \in CallsTo({"thread.get", "thread.add", "thread.add_messages"}) :
                  calls[i].key = SpecifiedSessionKey
            /\ \A i \in CallsTo({"thread.add"}) : calls[i].owner = req.phone
            /\ Cardinality(appends) <= 1
            /\ \A i \in appends :
                  /\ RoleAndContent(calls[i].msgs) = SpecifiedMessages(SpecifiedList)
                  /\ \E j \in 1..(i - 1) : calls[j].op = "thread.get"
            /\ NoFault(calls) =>
                  /\ Cardinality(appends) = 1
                  /\ Last(calls).op = "thread.add_messages" /\ Last(calls).out = "ok"
                  /\ req.phone \in users
                  /\ SpecifiedSessionKey \in DOMAIN threads

\* the two-message example of the specification, saved
C5_Witness ==
    /\ IsReport
    /\ req.phone = "+14065551234" /\ req.call_id = "abc123"
    /\ req.top = List(<<UserHello, BotHi>>)
    /\ calls # <<>>
    /\ Last(calls).op = "thread.add_messages" /\ Last(calls).out = "ok"
    /\ Last(calls).key = "mfc_+14065551234_abc123"
    /\ RoleAndContent(Last(calls).msgs) =
          <<[role |-> "user", content |-> "hello"],
            [role |-> "assistant", content |-> "hi there"]>>

----------------------------------------------------------------------------
(* C6: with an empty normalized message list, save returns a count of zero   *)
(* without error and issues no store write, on the end-of-call path and on   *)
(* the save operation called with an empty transcript.                       *)
C6_EmptySaveWritesNothing ==
    /\ (IsReport /\ req.phone \in Phones
            /\ (\A i \in 1..Len(SpecifiedList) : SpecifiedList[i].obj)
            /\ SpecifiedMessages(SpecifiedList) = <<>>)
          => CallsTo(WriteOps) = {} /\ resp = StatusResp("success")
    /\ (IsDirectSave /\ req.transcript = <<>>)
          => /\ CallsTo(WriteOps) = {}
             /\ resp.kind = "saved" /\ resp.messages_saved = 0

----------------------------------------------------------------------------
(* C7: in the save operation, a failure of the append call after identity    *)
(* and session were reconciled ends in a server error, never in a success    *)
(* or a messages_saved count; success is reported only after the append      *)
(* returned.                                                                 *)
C7_AppendFailureSurfaces ==
    IsDirectSave =>
        /\ (\E i \in CallsTo({"thread.add_messages"}) : calls[i].out # "ok")
              => resp.kind = "http_error" /\ resp.http = 500 /\ ~resp.success
        /\ (resp.success \/ resp.kind = "saved")
              => /\ calls # <<>>
                 /\ Last(calls).op = "thread.add_messages"
                 /\ Last(calls).out = "ok"
                 /\ resp.messages_saved = Len(Last(calls).msgs)

\* identity and session reconciled, the append failed, the request failed
C7_Witness ==
    /\ IsDirectSave
    /\ req.transcript # <<>>
    /\ req.phone \in users /\ req.session_id \in DOMAIN threads
    /\ calls # <<>>
    /\ Last(calls).op = "thread.add_messages" /\ Last(calls).out = "fault"
    /\ resp.http = 500

----------------------------------------------------------------------------
(* C8: identity reconciliation is idempotent.  While the store answers       *)
(* without service errors, an operation that ensures a caller key the store  *)
(* already holds takes the lookup-hit path and attempts no create, and an    *)
(* identity is created successfully only when the store did not hold it: of  *)
(* two successive operations on one key at most the first creates it.        *)

\* a handler runs: the step from the idle server to the handled request
HandlerStep == Idle /\ req'.op # "none"

UserAdds(log) == {i \in 1..Len(log) : log[i].op = "user.add"}

C8_IdentityIdempotent ==
    [][ (HandlerStep /\ NoFault(calls')) =>
            /\ req'.phone \in users => (UserAdds(calls') = {} /\ users' = users)
            /\ \A i \in UserAdds(calls') :
                  calls'[i].out = "ok" => (calls'[i].key \notin users /\ calls'[i].key \in users')
            /\ Cardinality({i \in UserAdds(calls') : calls'[i].out = "ok"}) <= 1
            /\ users \subseteq users' ]_vars

\* a context retrieval that finds the identity an end-of-call report created
C8_Witness ==
    /\ IsContextRetrieval
    /\ req.phone \in reported
    /\ NoFault(calls)
    /\ calls # <<>>
    /\ calls[1].op = "user.get" /\ calls[1].key = req.phone /\ calls[1].out = "ok"
    /\ UserAdds(calls) = {}

----------------------------------------------------------------------------
(* C9: a context retrieval for a caller key the store has never seen returns *)
(* is_new_caller = true, the fixed onboarding context and no facts, and      *)
(* attempts to create the identity; without service errors the identity      *)
(* exists afterwards, and a retrieval for a key the store holds returns      *)
(* is_new_caller = false.                                                    *)

ContextRetrievalOf(r) ==
    \/ r.op = "get-caller-context"
    \/ r.op = "webhook" /\ r.type = "assistant-request" /\ r.phone # None

C9_NewCallerFirstTouch ==
    [][ (HandlerStep /\ ContextRetrievalOf(req')) =>
            /\ req'.phone \notin users =>
                  /\ resp'.context = OnboardingContext
                  /\ resp'.facts = <<>>
                  /\ req'.op = "get-caller-context" => resp'.is_new_caller
                  /\ \E i \in UserAdds(calls') : calls'[i].key = req'.phone
                  /\ NoFault(calls') => req'.phone \in users'
            /\ (req'.phone \in users /\ NoFault(calls')) =>
                  /\ ~resp'.is_new_caller
                  /\ resp'.context # OnboardingContext ]_vars

\* the first retrieval for a caller: the new-caller result, the identity created
C9_Witness ==
    /\ IsDirectContext
    /\ resp.is_new_caller
    /\ resp.context = OnboardingContext
    /\ Len(calls) >= 2
    /\ calls[1].op = "user.get" /\ calls[1].out = "not_found"
    /\ calls[2].op = "user.add" /\ calls[2].key = req.phone /\ calls[2].out = "ok"
    /\ req.phone \in users

----------------------------------------------------------------------------
(* C10: the dispatcher routes by event type.  assistant-request and          *)
(* assistant.started retrieve context and return an assistant configuration; *)
(* tool-calls and function-call return a tool result (the context for the    *)
(* memory lookup, a 'not implemented' stub otherwise); end-of-call-report    *)
(* persists; every other type is acknowledged and reaches no store call.     *)
C10_RoutingByType ==
    (req.op = "webhook" /\ req.phone \in Phones) =>
        /\ req.type \in {"assistant-request", "assistant.started"}
              => /\ resp.kind = "assistant"
                 /\ CallsTo({"user.get"}) # {}
        /\ req.type \in {"tool-calls", "function-call"}
              => resp.kind \in {"tool_result", "tool_not_implemented"}
        /\ (req.type = "end-of-call-report" /\ SavableReport)
              => CallsTo({"user.get"}) # {}
        /\ req.type \notin {"assistant-request", "assistant.started", "tool-calls",
                            "function-call", "end-of-call-report"}
              => resp = StatusResp("acknowledged") /\ calls = <<>>

----------------------------------------------------------------------------
(* C11: every webhook request ends with a JSON object as its response.  For  *)
(* any envelope (unknown types, a body that is no JSON object, a null or     *)
(* non-object message, call or customer, transcript entries that are no      *)
(* objects) no fault escapes the handler: the response is an HTTP 200 with   *)
(* an assistant configuration or a status object.                            *)
C11_WebhookAlwaysResponds ==
    req.op = "webhook" =>
        /\ resp.http = 200
        /\ resp.kind \in {"status", "assistant", "assistant_empty"}
        /\ resp.kind = "status" => resp.status \in {"success", "acknowledged", "error"}

\* an end-of-call report whose customer is null, answered with the error status
C11_Witness ==
    /\ IsReport
    /\ req.shape = "customer_null"
    /\ resp = StatusResp("error")
    /\ calls = <<>>

----------------------------------------------------------------------------
(* C12: every message the persister sends to the store has a text of at most *)
(* 2500 characters; longer text is cut to that length, marker included.      *)
Appends == CallsTo({"thread.add_messages"})

C12_MessagesWithinMaxLength ==
    \A i \in Appends :
        \A m \in 1..Len(calls[i].msgs) : Len(calls[i].msgs[m].content) <= 2500

----------------------------------------------------------------------------
(* C13: reconciliation precedes the store accesses that depend on it.  Before *)
(* a context read or an append is issued for a session of a caller, the same  *)
(* request has ensured, by a lookup or a create that returned, the caller's   *)
(* identity and that session.                                                 *)
EnsuredBefore(i, ops, key) ==
    \E j \in 1..(i - 1) : calls[j].op \in ops /\ calls[j].key = key /\ calls[j].out = "ok"

C13_ReconciliationPrecedes ==
    \A i \in CallsTo({"thread.get_user_context", "thread.add_messages"}) :
        /\ EnsuredBefore(i, {"user.get", "user.add"}, req.phone)
        /\ EnsuredBefore(i, {"thread.get", "thread.add"}, calls[i].key)

----------------------------------------------------------------------------
(* C14: store-state invariant, for any sequence of requests and any pattern   *)
(* of store call failures.  A session is created only for an identity the     *)
(* request has found or created, messages are appended only to a session the  *)
(* request has found or created, and the store holds no session whose owner   *)
(* it does not hold.                                                          *)
C14_StoreWellFormed ==
    /\ \A t \in DOMAIN threads : threads[t].owner \in users
    /\ \A i \in CallsTo({"thread.add"}) :
          calls[i].out = "ok" =>
              /\ EnsuredBefore(i, {"user.get", "user.add"}, calls[i].owner)
              /\ calls[i].owner \in users
    /\ \A i \in Appends :
          /\ calls[i].out # "not_found"
          /\ EnsuredBefore(i, {"thread.get", "thread.add"}, calls[i].key)
          /\ calls[i].key \in DOMAIN threads

\* a save that creates the identity, then its session, then appends to it
C14_Witness ==
    /\ IsDirectSave
    /\ Len(calls) = 5
    /\ calls[2].op = "user.add" /\ calls[2].out = "ok"
    /\ calls[4].op = "thread.add" /\ calls[4].out = "ok" /\ calls[4].owner = calls[2].key
    /\ calls[5].op = "thread.add_messages" /\ calls[5].out = "ok"
    /\ calls[5].key = calls[4].key
    /\ threads[calls[5].key].owner \in users

----------------------------------------------------------------------------
(* C15: in reconciliation a failed lookup (a miss or a service error) is      *)
(* followed by a create, and a create that fails is swallowed: a context      *)
(* retrieval still returns its result, and a save still goes on to the        *)
(* session reconciliation and the append.                                     *)
FailedCalls(ops) == {i \in CallsTo(ops) : calls[i].out # "ok"}

C15_CreateFailureSwallowed ==
    /\ IsContextRetrieval =>
          /\ \A i \in FailedCalls({"user.get"}) :
                i < Len(calls) /\ calls[i + 1].op = "user.add"
          /\ resp.kind \in {"context", "assistant"} /\ resp.http = 200
    /\ (IsDirectSave /\ Convertible(req.transcript)) =>
          /\ \A i \in FailedCalls({"user.get"}) :
                i < Len(calls) /\ calls[i + 1].op = "user.add"
          /\ \A i \in FailedCalls({"thread.get"}) :
                i < Len(calls) /\ calls[i + 1].op = "thread.add"
          /\ FailedCalls({"user.add", "thread.add"}) # {} =>
                /\ CallsTo({"thread.get"}) # {}
                /\ Appends # {}

----------------------------------------------------------------------------
(* C16: the first-touch race is benign.  When two requests for one caller    *)
(* the store has never seen both miss the identity and both attempt to       *)
(* create it, against a store that rejects or de-duplicates the second       *)
(* create, then however their store calls interleave the identity exists     *)
(* afterwards, neither request fails, and the transcript of every save is    *)
(* appended to its session.                                                  *)
Ended(p) == race.procs[p].pc \in {"returned", "raised"}

RaceLog(p) == race.procs[p].log

MissedAndCreated(p) ==
    /\ \E i \in 1..Len(RaceLog(p)) :
          RaceLog(p)[i].op = "user.get" /\ RaceLog(p)[i].out = "not_found"
    /\ \E i \in 1..Len(RaceLog(p)) : RaceLog(p)[i].op = "user.add"

C16_FirstTouchRaceBenign ==
    (race.procs # <<>> /\ \A p \in Procs : Ended(p) /\ MissedAndCreated(p)) =>
        /\ RaceCaller \in users
        /\ \A p \in Procs :
              /\ race.procs[p].pc = "returned"
              /\ race.procs[p].op = "save-conversation" =>
                    /\ Last(RaceLog(p)).op = "thread.add_messages"
                    /\ Last(RaceLog(p)).out = "ok"
                    /\ race.procs[p].tid \in DOMAIN threads
                    /\ \E i \in 1..Len(threads[race.procs[p].tid].messages) :
                          threads[race.procs[p].tid].messages[i] =
                              ZepMessages(RaceTranscript)[1]

----------------------------------------------------------------------------
(* C17: role classification is binary with the agent role as the default.  A  *)
(* message is stored with the caller role exactly when its source role is     *)
(* 'user'; any other value, and a missing role, is stored with the agent      *)
(* role, on the end-of-call path and on the save operation.                   *)
Roles(msgs) == [m \in 1..Len(msgs) |-> msgs[m].role]

C17_RoleDefaultsToAgent ==
    /\ SavableReport =>
          \A i \in Appends : Roles(calls[i].msgs) = Roles(SpecifiedMessages(SpecifiedList))
    /\ IsDirectSave =>
          \A i \in Appends :
              Roles(calls[i].msgs) = [m \in 1..Len(req.transcript) |->
                                         SpecifiedRole(req.transcript[m])]

----------------------------------------------------------------------------
(* C18: extraction takes the first non-empty result in a fixed order: the     *)
(* payload-level list, else the call-level list; per message content, else    *)
(* text, else message; messages without text are dropped.  So whenever one    *)
(* of the two lists holds a message with text, the extracted list is not      *)
(* empty and is persisted.                                                    *)
SpecifiedExtraction ==
    IF SpecifiedMessages(req.top.items) # <<>> THEN SpecifiedMessages(req.top.items)
    ELSE SpecifiedMessages(req.call_msgs.items)

C18_ExtractionPersisted ==
    (/\ IsReport /\ req.shape = "object" /\ req.phone \in Phones
     /\ AllObjects(req.top.items) /\ AllObjects(req.call_msgs.items)
     /\ SpecifiedExtraction # <<>>
     /\ NoFault(calls))
        => \E i \in Appends :
              /\ calls[i].out = "ok"
              /\ RoleAndContent(calls[i].msgs) = SpecifiedExtraction

----------------------------------------------------------------------------
(* C19: persistence respects session ownership.  The messages of a request    *)
(* for caller K are appended only to a session whose owner is K; a save that  *)
(* names a session of another identity appends nothing to it.                 *)
C19_OwnershipRespected ==
    (IsDirectSave \/ IsReport) =>
        \A i \in Appends : calls[i].out = "ok" => threads[calls[i].key].owner = req.phone

----------------------------------------------------------------------------
(* C20: one session per call on the end-of-call path.  The session key a      *)
(* report is appended to is derived for no other call, of this caller or of   *)
(* another, with or without a call id: two different calls never share a      *)
(* session.                                                                   *)
C20_OneSessionPerCall ==
    IsReport =>
        \A i \in Appends :
            \A d \in CallData \cup {SecondCallWithoutId} :
                (Truthy(d[1]) /\ d[3] # req.call) => CallThreadId(d[1], d[2]) # calls[i].key

====
